---- MODULE Spec2Model ----
(***************************************************************************)
(* Model of the prescription verifier's engine (src/model.py): DrugDB,     *)
(* GraniteClient.extract_drug_info and Analyzer.extract / Analyzer.check.  *)
(*                                                                         *)
(* Values.  A Python str is a sequence of code points, so lower(), strip() *)
(* and the ordering of strings are computed, not assumed.  An Optional[T]  *)
(* is a set: {} is None and {v} is the value v.  A dict is a function      *)
(* whose DOMAIN is its set of keys.                                        *)
(***************************************************************************)
EXTENDS Integers, Sequences, FiniteSets, TLC

VARIABLES
    db,              \* DrugDB.db: the loaded reference document
    pipe,            \* GraniteClient.pipe: TRUE when the model loaded, FALSE for None
    pc,              \* per caller: where its current call stands
    req,             \* per caller: the arguments of the call (text, explicit_drugs, age)
    granite_result,  \* per caller: extract's local granite_result
    calls,           \* per caller: the collaborators extract has invoked, in order
    items,           \* per caller: the list extract returns / check receives
    interactions,    \* per caller: check's local interactions
    recs,            \* per caller: check's local recs
    warnings,        \* per caller: check's local warnings
    idx,             \* per caller: how many items check's loop has done
    result,          \* per caller: the dict check returns
    norm             \* per caller: the argument and results of normalize calls

vars == <<db, pipe, pc, req, granite_result, calls, items, interactions,
          recs, warnings, idx, result, norm>>

-----------------------------------------------------------------------------
(* Bounds of the model.                                                    *)

MaxItems == 3

MaxDose == 2

MaxFreq == 3

MaxNameLen == 2

MaxExplicit == 2

-----------------------------------------------------------------------------
(* Optional values and dict lookups.                                       *)

None == {}

Some(v) == {v}

Val(o) == CHOOSE v \in o : TRUE

Get(m, k) == IF k \in DOMAIN m THEN Some(m[k]) ELSE None

Range(s) == {s[i] : i \in DOMAIN s}

-----------------------------------------------------------------------------
(* Python str operations on sequences of code points.                      *)

LowerChar(c) == IF c >= 65 /\ c <= 90 THEN c + 32 ELSE c

Lower(s) == [i \in DOMAIN s |-> LowerChar(s[i])]

IsSpace(c) == c = 32

RECURSIVE LStrip(_)
LStrip(s) == IF s # <<>> /\ IsSpace(Head(s)) THEN LStrip(Tail(s)) ELSE s

RECURSIVE RStrip(_)
RStrip(s) ==
    IF s # <<>> /\ IsSpace(s[Len(s)]) THEN RStrip(SubSeq(s, 1, Len(s) - 1)) ELSE s

Strip(s) == RStrip(LStrip(s))

\* a < b for Python strings: lexicographic on code points, a proper prefix first
RECURSIVE StrLess(_, _)
StrLess(a, b) ==
    IF b = <<>> THEN FALSE
    ELSE IF a = <<>> THEN TRUE
    ELSE IF Head(a) # Head(b) THEN Head(a) < Head(b)
    ELSE StrLess(Tail(a), Tail(b))

StrGE(a, b) == ~StrLess(a, b)

-----------------------------------------------------------------------------
(* The reference document (datasets/drug_data.json as load_db returns it). *)
(* Drug names: "A", "B", "C"; aliases "X" (of A), "c2" (of C); in the      *)
(* third drug table the record C carries the alias "a", which equals the   *)
(* name of record A case-insensitively.                                    *)

NameA == <<65>>

NameB == <<66>>

NameC == <<67>>

NameZ == <<90>>

recA == [name |-> NameA, adult_dose |-> "500mg q6h", child_dose |-> "250mg q6h",
         aliases |-> << <<88>> >>]

recB == [name |-> NameB, adult_dose |-> "5mg daily", child_dose |-> "2mg daily",
         aliases |-> <<>>]

recC == [name |-> NameC, adult_dose |-> "400mg q8h", child_dose |-> "200mg q8h",
         aliases |-> << <<67, 50>> >>]

recCa == [name |-> NameC, adult_dose |-> "400mg q8h", child_dose |-> "200mg q8h",
          aliases |-> << <<97>> >>]

DrugTables ==
    { <<recA, recB, recC>>, <<recC, recB, recA>>, <<recCa, recA, recB>>,
      <<recA, recB, recA>> }

itAB == [pair |-> <<NameA, NameB>>, severity |-> "moderate", note |-> "bleeding risk"]

itCB == [pair |-> <<NameC, NameB>>, severity |-> "major", note |-> "avoid"]

itAC == [pair |-> <<NameA, NameC>>, severity |-> "minor", note |-> "monitor"]

itAZ == [pair |-> <<NameA, NameZ>>, severity |-> "minor", note |-> "unknown drug"]

InteractionTables ==
    { <<itAB>>, <<itAB, itCB>>, <<itCB, itAB, itAC>>, <<itAB, itAZ>> }

MaxDailyTable ==
    (NameA :> [adult |-> 3, child |-> 2]) @@ (NameB :> [adult |-> 1, child |-> 1])

AlternativesTable == (NameA :> <<NameB>>) @@ (NameB :> <<NameA, NameC>>)

Documents ==
    { [drugs |-> dt, max_daily_dose_mg |-> MaxDailyTable, interactions |-> its,
       alternatives |-> AlternativesTable]
        : dt \in DrugTables, its \in InteractionTables }

RecordNames(doc) == {doc.drugs[i].name : i \in DOMAIN doc.drugs}

\* load_db: the structural checks of the reference document.  Canonical names
\* are unique ignoring case, and every name an interaction pair, a dose limit
\* or an alternatives key uses is the name of a record.  An alias that equals
\* another record's name is loaded: normalize resolves it by declaration order.
load_db_accepts(doc) ==
    /\ \A i, j \in DOMAIN doc.drugs :
          Lower(doc.drugs[i].name) = Lower(doc.drugs[j].name) => i = j
    /\ \A k \in DOMAIN doc.interactions :
          Range(doc.interactions[k].pair) \subseteq RecordNames(doc)
    /\ DOMAIN doc.max_daily_dose_mg \subseteq RecordNames(doc)
    /\ DOMAIN doc.alternatives \subseteq RecordNames(doc)

Datasets == {doc \in Documents : load_db_accepts(doc)}

\* age_group: the age bracket of a patient.
ChildMaxAge == 12

AdolescentMaxAge == 17

age_group(age) ==
    IF age <= ChildMaxAge THEN "child"
    ELSE IF age <= AdolescentMaxAge THEN "adolescent"
    ELSE "adult"

Ages == {8, 15, 30}

-----------------------------------------------------------------------------
(* DrugDB.                                                                 *)

Min(S) == CHOOSE x \in S : \A y \in S : x <= y

\* the condition of normalize's loop for one record
NameMatches(r, n) ==
    \/ Lower(r.name) = n
    \/ n \in {Lower(r.aliases[i]) : i \in DOMAIN r.aliases}

normalize(d, name) ==
    LET n == Strip(Lower(name))
        hits == {i \in DOMAIN d.drugs : NameMatches(d.drugs[i], n)}
    IN  IF hits = {} THEN None ELSE Some(d.drugs[Min(hits)].name)

\* the lookup that keeps the loop's last record when no name matches
FindDrugOrLast(d, drug) ==
    LET hits == {i \in DOMAIN d.drugs : d.drugs[i].name = drug}
    IN  IF hits # {} THEN Some(d.drugs[Min(hits)])
        ELSE IF d.drugs = <<>> THEN None
        ELSE Some(d.drugs[Len(d.drugs)])

\* next((x for x in self.db["drugs"] if x["name"] == drug), None)
FindDrug(d, drug) ==
    LET hits == {i \in DOMAIN d.drugs : d.drugs[i].name = drug}
    IN  IF hits = {} THEN None ELSE Some(d.drugs[Min(hits)])

default_dose_for_age(d, drug, age) ==
    LET x == FindDrug(d, drug)
        grp == age_group(age)
    IN  IF x = None THEN None
        ELSE IF grp \in {"child", "adolescent"} THEN Some(Val(x).child_dose)
        ELSE Some(Val(x).adult_dose)

max_daily_mg(d, drug, age) ==
    LET m == Get(d.max_daily_dose_mg, drug)
        grp == age_group(age)
    IN  IF m = None THEN None
        ELSE IF grp \in {"child", "adolescent"} THEN Some(Val(m).child)
        ELSE Some(Val(m).adult)

\* the records appended for one pair (a, b): set(p) == set([a, b])
PairRecords(d, a, b) ==
    SelectSeq(d.interactions, LAMBDA it : Range(it.pair) = {a, b})

\* the two nested loops over drugs, cell k of the len x len grid in row order
RECURSIVE InteractionsScan(_, _, _, _, _)
InteractionsScan(d, drugs, k, pairs, out) ==
    IF k >= Len(drugs) * Len(drugs) THEN out
    ELSE LET a == drugs[(k \div Len(drugs)) + 1]
             b == drugs[(k % Len(drugs)) + 1]
         IN  IF StrGE(a, b) THEN InteractionsScan(d, drugs, k + 1, pairs, out)
             ELSE IF <<a, b>> \in pairs
                  THEN InteractionsScan(d, drugs, k + 1, pairs, out)
             ELSE InteractionsScan(d, drugs, k + 1, pairs \cup {<<a, b>>},
                                   out \o PairRecords(d, a, b))

\* interactions_for without the `key in pairs` test
RECURSIVE InteractionsScanNoDedup(_, _, _, _, _)
InteractionsScanNoDedup(d, drugs, k, pairs, out) ==
    IF k >= Len(drugs) * Len(drugs) THEN out
    ELSE LET a == drugs[(k \div Len(drugs)) + 1]
             b == drugs[(k % Len(drugs)) + 1]
         IN  IF StrGE(a, b) THEN InteractionsScanNoDedup(d, drugs, k + 1, pairs, out)
             ELSE InteractionsScanNoDedup(d, drugs, k + 1, pairs,
                                          out \o PairRecords(d, a, b))

interactions_for_nodedup(d, drugs) == InteractionsScanNoDedup(d, drugs, 0, {}, <<>>)

interactions_for(d, drugs) == InteractionsScan(d, drugs, 0, {}, <<>>)

alternatives(d, drug) ==
    IF drug \in DOMAIN d.alternatives THEN d.alternatives[drug] ELSE <<>>

-----------------------------------------------------------------------------
(* GraniteClient.extract_drug_info.  The result is tagged by its Python    *)
(* type: "list" (entries), "str" (the generated text) or "dict" (the       *)
(* {"error": ...} value).  An outcome of the pipeline call is an exception *)
(* or the value of [0]['generated_text'].                                  *)

Entry(drug, dose, freq) ==
    [drug |-> drug, dose_mg |-> dose, frequency_per_day |-> freq]

ListValue(es) == [kind |-> "list", entries |-> es]

StrValue == [kind |-> "str", entries |-> <<>>]

ErrorDict == [kind |-> "dict", entries |-> <<>>]

NoValue == [kind |-> "none", entries |-> <<>>]

GeneratedLists ==
    { <<>>,
      << Entry(Some(<<120>>), Some(1), Some(2)) >>,
      << Entry(Some(NameZ), None, None), Entry(Some(NameB), Some(1), Some(1)) >> }

PipeOutcomes ==
    {[raises |-> TRUE, value |-> NoValue], [raises |-> FALSE, value |-> StrValue]}
        \cup {[raises |-> FALSE, value |-> ListValue(es)] : es \in GeneratedLists}

extract_drug_info(pipeLoaded, outcome) ==
    IF ~pipeLoaded THEN ListValue(<<>>)
    ELSE IF outcome.raises THEN ErrorDict
    ELSE outcome.value

-----------------------------------------------------------------------------
(* parse_prescription: the fallback parser.  A text is its sequence of     *)
(* words; the parser reports the words that name a drug of the database,   *)
(* under the record's name, in the order of the text.                      *)

RECURSIVE parse_prescription(_, _)
parse_prescription(text, d) ==
    IF text = <<>> THEN <<>>
    ELSE LET n == normalize(d, Head(text))
         IN  (IF n = None THEN <<>> ELSE << Entry(n, None, None) >>)
                 \o parse_prescription(Tail(text), d)

-----------------------------------------------------------------------------
(* Analyzer.extract.                                                       *)

\* `if granite_result:` alone
IsTruthyResult(g) == g.kind \in {"str", "dict"} \/ g.entries # <<>>

\* granite_result and isinstance(granite_result, list)
IsStructuredList(g) == g.kind = "list" /\ g.entries # <<>>

\* explicit_drugs and len(explicit_drugs) > 1
UseExplicitOffByOne(explicit) == explicit # None /\ Len(Val(explicit)) > 1

\* explicit_drugs and len(explicit_drugs) > 0
UseExplicit(explicit) == explicit # None /\ Len(Val(explicit)) > 0

\* if text:
HasText(text) == text # None /\ Val(text) # <<>>

\* the entry appended to cleaned for one explicit entry d
CleanEntry(d, e) ==
    LET raw == IF e.drug = None THEN <<>> ELSE Val(e.drug)
        n == normalize(d, raw)
        nm == IF n # None /\ Val(n) # <<>> THEN Val(n) ELSE raw
    IN  Entry(Some(nm), e.dose_mg, e.frequency_per_day)

Cleaned(d, explicit) == [i \in DOMAIN explicit |-> CleanEntry(d, explicit[i])]

-----------------------------------------------------------------------------
(* Analyzer.check.                                                         *)

\* Python truth of an Optional[int]
Truthy(o) == o # None /\ Val(o) # 0

Total(it) ==
    IF Truthy(it.dose_mg) /\ Truthy(it.frequency_per_day)
    THEN Some(Val(it.dose_mg) * Val(it.frequency_per_day))
    ELSE None

\* the warnings one pass of the loop appends for item it
ItemWarnings(d, it, age) ==
    LET nm == Val(it.drug)
        max_daily == max_daily_mg(d, nm, age)
        total == Total(it)
    IN  IF Truthy(total) /\ Truthy(max_daily) /\ Val(total) > Val(max_daily)
        THEN << [drug |-> nm, issue |-> "Dose exceeds max daily limit",
                 computed_mg_per_day |-> Val(total),
                 max_daily_mg |-> Val(max_daily)] >>
        ELSE <<>>

\* the value one pass of the loop stores in recs[nm]
ItemGuidance(d, it, age) ==
    [recommended_dose_for_age |-> default_dose_for_age(d, Val(it.drug), age),
     max_daily_mg |-> max_daily_mg(d, Val(it.drug), age)]

\* i["drug"] raises KeyError for an item without the key
HasDrugKey(its) == \A i \in DOMAIN its : its[i].drug # None

Drugs(its) == [i \in DOMAIN its |-> Val(its[i].drug)]

Alts(d, its) == [nm \in Range(Drugs(its)) |-> alternatives(d, nm)]

RECURSIVE LoopRecs(_, _, _, _)
LoopRecs(d, its, age, acc) ==
    IF its = <<>> THEN acc
    ELSE LoopRecs(d, Tail(its), age,
                  (Val(Head(its).drug) :> ItemGuidance(d, Head(its), age)) @@ acc)

RECURSIVE LoopWarnings(_, _, _)
LoopWarnings(d, its, age) ==
    IF its = <<>> THEN <<>>
    ELSE ItemWarnings(d, Head(its), age) \o LoopWarnings(d, Tail(its), age)

\* check as one function of its arguments and the database
CheckResult(d, its, age) ==
    [drugs_parsed |-> its,
     interactions |-> interactions_for(d, Drugs(its)),
     dosage_guidance |-> LoopRecs(d, its, age, <<>>),
     warnings |-> LoopWarnings(d, its, age),
     alternatives |-> Alts(d, its)]

-----------------------------------------------------------------------------
(* The callers.  Each caller makes one call at a time on the shared        *)
(* Analyzer: extract, check, or DrugDB.normalize.                          *)

Procs == {1, 2}

IdleReq == [text |-> None, explicit |-> None, age |-> 0]

NoResult ==
    [drugs_parsed |-> <<>>, interactions |-> <<>>, dosage_guidance |-> <<>>,
     warnings |-> <<>>, alternatives |-> <<>>]

IdleNorm == [raw |-> <<>>, once |-> None, twice |-> None]

Init ==
    /\ db \in Datasets
    /\ pipe \in BOOLEAN
    /\ pc = [p \in Procs |-> "idle"]
    /\ req = [p \in Procs |-> IdleReq]
    /\ granite_result = [p \in Procs |-> NoValue]
    /\ calls = [p \in Procs |-> <<>>]
    /\ items = [p \in Procs |-> <<>>]
    /\ interactions = [p \in Procs |-> <<>>]
    /\ recs = [p \in Procs |-> <<>>]
    /\ warnings = [p \in Procs |-> <<>>]
    /\ idx = [p \in Procs |-> 0]
    /\ result = [p \in Procs |-> NoResult]
    /\ norm = [p \in Procs |-> IdleNorm]

\* Analyzer.extract is entered with (text, explicit_drugs)
CallExtract(p, texts, explicits) ==
    /\ pc[p] = "idle"
    /\ \E t \in texts, e \in explicits :
          req' = [req EXCEPT ![p] = [text |-> t, explicit |-> e, age |-> 0]]
    /\ pc' = [pc EXCEPT ![p] = "extract"]
    /\ UNCHANGED <<db, pipe, granite_result, calls, items, interactions, recs,
                   warnings, idx, result, norm>>

\* the explicit branch: return cleaned
ExtractExplicit(p) ==
    /\ pc[p] = "extract"
    /\ UseExplicit(req[p].explicit)
    /\ items' = [items EXCEPT ![p] = Cleaned(db, Val(req[p].explicit))]
    /\ pc' = [pc EXCEPT ![p] = "extracted"]
    /\ UNCHANGED <<db, pipe, req, granite_result, calls, interactions, recs,
                   warnings, idx, result, norm>>

\* neither branch: return []
ExtractNothing(p) ==
    /\ pc[p] = "extract"
    /\ ~UseExplicit(req[p].explicit)
    /\ ~HasText(req[p].text)
    /\ items' = [items EXCEPT ![p] = <<>>]
    /\ pc' = [pc EXCEPT ![p] = "extracted"]
    /\ UNCHANGED <<db, pipe, req, granite_result, calls, interactions, recs,
                   warnings, idx, result, norm>>

\* the text branch: granite_result = self.granite.extract_drug_info(text)
ExtractCallGranite(p) ==
    /\ pc[p] = "extract"
    /\ ~UseExplicit(req[p].explicit)
    /\ HasText(req[p].text)
    /\ \E o \in PipeOutcomes :
          granite_result' = [granite_result EXCEPT ![p] = extract_drug_info(pipe, o)]
    /\ calls' = [calls EXCEPT ![p] = Append(@, "granite")]
    /\ pc' = [pc EXCEPT ![p] = "granite_returned"]
    /\ UNCHANGED <<db, pipe, req, items, interactions, recs, warnings, idx,
                   result, norm>>

\* return granite_result
ExtractReturnGranite(p) ==
    /\ pc[p] = "granite_returned"
    /\ IsStructuredList(granite_result[p])
    /\ items' = [items EXCEPT ![p] = granite_result[p].entries]
    /\ pc' = [pc EXCEPT ![p] = "extracted"]
    /\ UNCHANGED <<db, pipe, req, granite_result, calls, interactions, recs,
                   warnings, idx, result, norm>>

\* return parse_prescription(text, self.db.db)
ExtractFallback(p) ==
    /\ pc[p] = "granite_returned"
    /\ ~IsStructuredList(granite_result[p])
    /\ calls' = [calls EXCEPT ![p] = Append(@, "fallback")]
    /\ items' = [items EXCEPT ![p] = parse_prescription(Val(req[p].text), db)]
    /\ pc' = [pc EXCEPT ![p] = "extracted"]
    /\ UNCHANGED <<db, pipe, req, granite_result, interactions, recs, warnings,
                   idx, result, norm>>

\* Analyzer.check is entered with (items, age)
CallCheck(p, inputs, ages) ==
    /\ pc[p] = "idle"
    /\ \E its \in inputs, a \in ages :
          /\ items' = [items EXCEPT ![p] = its]
          /\ req' = [req EXCEPT ![p] = [text |-> None, explicit |-> None, age |-> a]]
    /\ pc' = [pc EXCEPT ![p] = "check"]
    /\ UNCHANGED <<db, pipe, granite_result, calls, interactions, recs, warnings,
                   idx, result, norm>>

\* drugs = [i["drug"] for i in items]; interactions = interactions_for(drugs)
CheckStart(p) ==
    /\ pc[p] = "check"
    /\ IF HasDrugKey(items[p])
       THEN /\ interactions' =
                  [interactions EXCEPT ![p] = interactions_for(db, Drugs(items[p]))]
            /\ pc' = [pc EXCEPT ![p] = "loop"]
       ELSE /\ pc' = [pc EXCEPT ![p] = "raised"]
            /\ UNCHANGED interactions
    /\ UNCHANGED <<db, pipe, req, granite_result, calls, items, recs, warnings,
                   idx, result, norm>>

\* one pass of `for it in items`
CheckLoop(p) ==
    /\ pc[p] = "loop"
    /\ idx[p] < Len(items[p])
    /\ LET it == items[p][idx[p] + 1]
       IN  /\ warnings' =
                 [warnings EXCEPT ![p] = @ \o ItemWarnings(db, it, req[p].age)]
           /\ recs' =
                 [recs EXCEPT
                    ![p] = (Val(it.drug) :> ItemGuidance(db, it, req[p].age)) @@ @]
    /\ idx' = [idx EXCEPT ![p] = @ + 1]
    /\ UNCHANGED <<db, pipe, pc, req, granite_result, calls, items, interactions,
                   result, norm>>

\* CheckFinish with the alternatives already prescribed removed from the
\* database's own lists
CheckFinishPruning(p) ==
    /\ pc[p] = "loop"
    /\ idx[p] = Len(items[p])
    /\ LET taken == Range(Drugs(items[p]))
           pruned == [k \in DOMAIN db.alternatives |->
                        IF k \in taken
                        THEN SelectSeq(db.alternatives[k], LAMBDA x : x \notin taken)
                        ELSE db.alternatives[k]]
       IN  /\ db' = [db EXCEPT !.alternatives = pruned]
           /\ result' = [result EXCEPT ![p] =
                 [drugs_parsed |-> items[p], interactions |-> interactions[p],
                  dosage_guidance |-> recs[p], warnings |-> warnings[p],
                  alternatives |-> Alts(db', items[p])]]
    /\ pc' = [pc EXCEPT ![p] = "done"]
    /\ UNCHANGED <<pipe, req, granite_result, calls, items, interactions, recs,
                   warnings, idx, norm>>

\* alts = {...}; return {...}
CheckFinish(p) ==
    /\ pc[p] = "loop"
    /\ idx[p] = Len(items[p])
    /\ result' = [result EXCEPT ![p] =
          [drugs_parsed |-> items[p], interactions |-> interactions[p],
           dosage_guidance |-> recs[p], warnings |-> warnings[p],
           alternatives |-> Alts(db, items[p])]]
    /\ pc' = [pc EXCEPT ![p] = "done"]
    /\ UNCHANGED <<db, pipe, req, granite_result, calls, items, interactions,
                   recs, warnings, idx, norm>>

\* DrugDB.normalize(name)
CallNormalize(p, names) ==
    /\ pc[p] = "idle"
    /\ \E x \in names :
          norm' = [norm EXCEPT ![p] =
                     [raw |-> x, once |-> normalize(db, x), twice |-> None]]
    /\ pc' = [pc EXCEPT ![p] = "normalized"]
    /\ UNCHANGED <<db, pipe, req, granite_result, calls, items, interactions,
                   recs, warnings, idx, result>>

\* DrugDB.normalize applied to the name the previous call returned
NormalizeAgain(p) ==
    /\ pc[p] = "normalized"
    /\ norm[p].once # None
    /\ norm' = [norm EXCEPT ![p].twice = normalize(db, Val(norm[p].once))]
    /\ pc' = [pc EXCEPT ![p] = "renormalized"]
    /\ UNCHANGED <<db, pipe, req, granite_result, calls, items, interactions,
                   recs, warnings, idx, result>>

\* the call is over; its locals are gone
Return(p) ==
    /\ pc[p] \in {"extracted", "done", "raised", "normalized", "renormalized"}
    /\ pc' = [pc EXCEPT ![p] = "idle"]
    /\ req' = [req EXCEPT ![p] = IdleReq]
    /\ granite_result' = [granite_result EXCEPT ![p] = NoValue]
    /\ calls' = [calls EXCEPT ![p] = <<>>]
    /\ items' = [items EXCEPT ![p] = <<>>]
    /\ interactions' = [interactions EXCEPT ![p] = <<>>]
    /\ recs' = [recs EXCEPT ![p] = <<>>]
    /\ warnings' = [warnings EXCEPT ![p] = <<>>]
    /\ idx' = [idx EXCEPT ![p] = 0]
    /\ result' = [result EXCEPT ![p] = NoResult]
    /\ norm' = [norm EXCEPT ![p] = IdleNorm]
    /\ UNCHANGED <<db, pipe>>

-----------------------------------------------------------------------------
(* Inputs.                                                                 *)

RECURSIVE SeqsUpTo(_, _)
SeqsUpTo(S, n) ==
    IF n = 0 THEN {<<>>}
    ELSE LET shorter == SeqsUpTo(S, n - 1)
         IN  shorter \cup {Append(s, x) : s \in shorter, x \in S}

Chars == {32, 65, 66, 67, 88, 90, 97, 98, 99}

RawNames == SeqsUpTo(Chars, MaxNameLen)

Doses == {None} \cup {Some(n) : n \in (0 - MaxDose)..MaxDose}

Freqs == {None} \cup {Some(n) : n \in (0 - 1)..MaxFreq}

\* entries that differ in their names only
NameEntries == {Entry(Some(n), None, None) : n \in {NameA, NameB, NameC, NameZ}}

\* entries that differ in dose and frequency; None as drug: no "drug" key
DoseEntries ==
    {Entry(n, d, f) : n \in {Some(NameA), Some(NameB), Some(NameZ), None},
                      d \in Doses, f \in Freqs}

\* lists of names, in every order and multiplicity
NameInputs == SeqsUpTo(NameEntries, MaxItems)

\* one entry of every dose and frequency, alone and after another entry
DoseInputs ==
    {<<e>> : e \in DoseEntries}
        \cup {<<Entry(Some(NameA), Some(2), Some(2)), e>> : e \in DoseEntries}

\* a text is None, "" or a sequence of words
Texts ==
    {None, Some(<<>>), Some(<< <<120>> >>), Some(<< <<98>>, NameZ >>),
     Some(<< <<97, 32>>, <<67, 50>> >>)}

ExplicitEntries ==
    {Entry(n, d[1], d[2]) :
        n \in {None, Some(<<120>>), Some(<<32, 97>>), Some(NameZ)},
        d \in {<<None, None>>, <<Some(1), Some(2)>>}}

Explicits ==
    {None} \cup {Some(es) : es \in SeqsUpTo(ExplicitEntries, MaxExplicit)}

Next ==
    \/ CallExtract(1, Texts, Explicits)
    \/ ExtractExplicit(1)
    \/ ExtractNothing(1)
    \/ ExtractCallGranite(1)
    \/ ExtractReturnGranite(1)
    \/ ExtractFallback(1)
    \/ CallCheck(1, NameInputs, {30})
    \/ CallCheck(1, DoseInputs, Ages)
    \/ CheckStart(1)
    \/ CheckLoop(1)
    \/ CheckFinish(1)
    \/ CallNormalize(1, RawNames)
    \/ NormalizeAgain(1)
    \/ Return(1)

\* one caller: the operations as functions of their arguments
Spec == Init /\ [][Next]_vars

(* Two callers on the same Analyzer, their calls interleaved step by step. *)

ConcTexts == {None, Some(<< <<120>>, NameZ >>)}

ConcExplicits == {None, Some(<< Entry(Some(<<32, 97>>), Some(1), Some(2)) >>)}

ConcCheckInputs ==
    { << Entry(Some(NameA), Some(2), Some(2)), Entry(Some(NameB), None, None) >>,
      << Entry(Some(NameZ), Some(1), Some(1)) >>,
      << Entry(None, Some(1), Some(1)) >> }

ConcNames == {<<88>>, NameZ}

NextConc ==
    \E p \in Procs :
        \/ CallExtract(p, ConcTexts, ConcExplicits)
        \/ ExtractExplicit(p)
        \/ ExtractNothing(p)
        \/ ExtractCallGranite(p)
        \/ ExtractReturnGranite(p)
        \/ ExtractFallback(p)
        \/ CallCheck(p, ConcCheckInputs, {8, 30})
        \/ CheckStart(p)
        \/ CheckLoop(p)
        \/ CheckFinish(p)
        \/ CallNormalize(p, ConcNames)
        \/ NormalizeAgain(p)
        \/ Return(p)

SpecConc == Init /\ [][NextConc]_vars

-----------------------------------------------------------------------------
(* Properties.                                                             *)

Count(seq, x) == Cardinality({i \in DOMAIN seq : seq[i] = x})

SameRecords(s, t) ==
    /\ Len(s) = Len(t)
    /\ \A x \in Range(s) \cup Range(t) : Count(s, x) = Count(t, x)

IsPermutation(s, t) ==
    /\ Len(s) = Len(t)
    /\ \A x \in Range(s) \cup Range(t) : Count(s, x) = Count(t, x)

\* the name extract is to store for a raw name: the canonical name if there
\* is one, the raw string otherwise
NormOrRaw(d, raw) == IF normalize(d, raw) # None THEN normalize(d, raw) ELSE Some(raw)

RawDrug(e) == IF e.drug = None THEN <<>> ELSE Val(e.drug)

\* the warnings the dose rule calls for: dose and frequency both present and
\* strictly positive, a maximum configured, and dose * frequency above it
RECURSIVE ExpectedWarnings(_, _, _)
ExpectedWarnings(d, its, age) ==
    IF its = <<>> THEN <<>>
    ELSE LET it == Head(its)
             nm == Val(it.drug)
             limit == Get(d.max_daily_dose_mg, nm)
             bracket == IF age_group(age) = "adult" THEN "adult" ELSE "child"
             due == /\ it.dose_mg # None /\ Val(it.dose_mg) > 0
                    /\ it.frequency_per_day # None /\ Val(it.frequency_per_day) > 0
                    /\ limit # None
                    /\ Val(it.dose_mg) * Val(it.frequency_per_day) > Val(limit)[bracket]
         IN  (IF due
              THEN << [drug |-> nm, issue |-> "Dose exceeds max daily limit",
                       computed_mg_per_day |->
                           Val(it.dose_mg) * Val(it.frequency_per_day),
                       max_daily_mg |-> Val(limit)[bracket]] >>
              ELSE <<>>) \o ExpectedWarnings(d, Tail(its), age)

\* C1: check emits a warning for an entry exactly when dose_mg and
\* frequency_per_day are both present and strictly positive, a maximum is
\* configured for the drug in the age's bracket and dose * frequency exceeds
\* it, with computed_mg_per_day the product and max_daily_mg the maximum; in
\* no other case (zero or negative dose or frequency included) does it warn.
C1_WarnsExactlyOnExceedance ==
    \A p \in Procs :
        pc[p] = "done" =>
            result[p].warnings = ExpectedWarnings(db, items[p], req[p].age)

\* C2: with a non-empty explicit list extract returns one entry per explicit
\* entry, in order, with the same dose_mg and frequency_per_day and the name
\* taken from that entry, whatever the text, and invokes neither the
\* text-extraction collaborator nor the fallback parser; with neither a text
\* nor an explicit list it returns the empty list.
C2_ExplicitListTakesPrecedence ==
    \A p \in Procs :
        pc[p] = "extracted" =>
            LET ex == req[p].explicit
                tx == req[p].text
            IN  /\ (ex # None /\ Val(ex) # <<>>) =>
                      /\ calls[p] = <<>>
                      /\ Len(items[p]) = Len(Val(ex))
                      /\ \A i \in DOMAIN items[p] :
                            /\ items[p][i].dose_mg = Val(ex)[i].dose_mg
                            /\ items[p][i].frequency_per_day =
                                  Val(ex)[i].frequency_per_day
                            /\ items[p][i].drug = NormOrRaw(db, RawDrug(Val(ex)[i]))
                /\ ((ex = None \/ Val(ex) = <<>>) /\ (tx = None \/ Val(tx) = <<>>)) =>
                      /\ items[p] = <<>>
                      /\ calls[p] = <<>>

C2_Witness ==
    \E p \in Procs :
        /\ pc[p] = "extracted"
        /\ req[p].explicit # None
        /\ Len(Val(req[p].explicit)) = 2
        /\ req[p].text # None
        /\ Val(req[p].text) # <<>>
        /\ Len(items[p]) = 2
        /\ items[p][1].drug = Some(NameA)
        /\ items[p][2].drug = Some(NameZ)

\* C3: the interaction records check / interactions_for computes for a list of
\* names are the same records, each as many times, for every list over the
\* same names (every order, every multiplicity); two names with one record
\* between them give exactly one record.
C3_InteractionsIgnoreOrderAndRepeats ==
    \A p \in Procs :
        pc[p] = "done" =>
            LET names == Drugs(items[p])
            IN  /\ \A other \in SeqsUpTo(Range(names), MaxItems) :
                      Range(other) = Range(names) =>
                          SameRecords(interactions_for(db, other),
                                      result[p].interactions)
                /\ (/\ Cardinality(Range(names)) = 2
                    /\ Cardinality({k \in DOMAIN db.interactions :
                           Range(db.interactions[k].pair) = Range(names)}) = 1)
                      => Len(result[p].interactions) = 1

C3_Witness ==
    \E p \in Procs :
        /\ pc[p] = "done"
        /\ Drugs(items[p]) = <<NameB, NameA, NameB>>
        /\ result[p].interactions = <<itAB>>

\* C4: for an entry whose name does not normalize, check reports null
\* recommended dose and null maximum for the name, an empty alternatives list,
\* no interaction record whose pair holds the name, keeps the entry in
\* drugs_parsed, and does not raise because of the name.
C4_UnknownDrugYieldsNoGuidance ==
    \A p \in Procs :
        /\ pc[p] = "done" =>
              \A i \in DOMAIN items[p] :
                  LET x == Val(items[p][i].drug)
                  IN  normalize(db, x) = None =>
                          /\ result[p].dosage_guidance[x] =
                                [recommended_dose_for_age |-> None,
                                 max_daily_mg |-> None]
                          /\ result[p].alternatives[x] = <<>>
                          /\ \A k \in DOMAIN result[p].interactions :
                                x \notin Range(result[p].interactions[k].pair)
                          /\ result[p].drugs_parsed[i] = items[p][i]
        /\ pc[p] = "raised" => \E i \in DOMAIN items[p] : items[p][i].drug = None

C4_Witness ==
    \E p \in Procs :
        /\ pc[p] = "done"
        /\ Drugs(items[p]) = <<NameA, NameZ, NameB>>
        /\ result[p].interactions # <<>>
        /\ result[p].dosage_guidance[NameZ].recommended_dose_for_age = None
        /\ result[p].dosage_guidance[NameA].recommended_dose_for_age # None

\* C5: normalize(normalize(x)) = normalize(x) whenever normalize(x) is defined,
\* for every dataset the database loads, an alias equal to another record's
\* name included.
C5_NormalizeIdempotent ==
    \A p \in Procs : pc[p] = "renormalized" => norm[p].twice = norm[p].once

\* C6: check never raises for malformed per-entry data (dose or frequency
\* missing, null or zero, drug name unresolved or missing): it always completes.
C6_CheckNeverRaises == \A p \in Procs : pc[p] # "raised"

\* C7: every entry extract returns has as drug the normalized raw name when
\* that is defined and the raw string otherwise, with no entry dropped: stated
\* here for the explicit list and for the list the collaborator returns (the
\* fallback parser's entries are the parser's own).
C7_ExtractNormalizesEveryEntry ==
    \A p \in Procs :
        pc[p] = "extracted" =>
            /\ (calls[p] = <<>> /\ req[p].explicit # None) =>
                  /\ Len(items[p]) = Len(Val(req[p].explicit))
                  /\ \A i \in DOMAIN items[p] :
                        items[p][i].drug =
                            NormOrRaw(db, RawDrug(Val(req[p].explicit)[i]))
            /\ calls[p] = <<"granite">> =>
                  /\ Len(items[p]) = Len(granite_result[p].entries)
                  /\ \A i \in DOMAIN items[p] :
                        items[p][i].drug =
                            NormOrRaw(db, RawDrug(granite_result[p].entries[i]))

\* C8: interactions_for returns the same sequence of records for any two
\* orderings of the same names.
C8_InteractionOrderIndependent ==
    \A p \in Procs :
        pc[p] \in {"loop", "done"} =>
            \A other \in SeqsUpTo(Range(Drugs(items[p])), Len(items[p])) :
                IsPermutation(other, Drugs(items[p])) =>
                    interactions_for(db, other) = interactions[p]

\* C9: with a text and no explicit entries extract invokes the text-extraction
\* collaborator first; it invokes the fallback parser, and returns the parser's
\* result, exactly when the collaborator's result is not a non-empty list
\* (unavailable, error value, non-list, empty list), and returns the
\* collaborator's list otherwise; a collaborator error never becomes a raise.
C9_FallbackExactlyWithoutStructuredList ==
    \A p \in Procs :
        LET tx == req[p].text
            ex == req[p].explicit
            g == granite_result[p]
            textPath == /\ tx # None /\ Val(tx) # <<>>
                        /\ (ex = None \/ Val(ex) = <<>>)
            structured == g.kind = "list" /\ Len(g.entries) > 0
        IN  /\ (textPath /\ pc[p] \in {"granite_returned", "extracted"}) =>
                  (calls[p] # <<>> /\ Head(calls[p]) = "granite")
            /\ (textPath /\ pc[p] = "extracted") =>
                  /\ structured =>
                        (calls[p] = <<"granite">> /\ items[p] = g.entries)
                  /\ ~structured =>
                        /\ calls[p] = <<"granite", "fallback">>
                        /\ items[p] = parse_prescription(Val(tx), db)
            /\ pc[p] = "raised" => calls[p] = <<>>

C9_Witness ==
    \E p \in Procs :
        /\ pc[p] = "extracted"
        /\ granite_result[p] = ErrorDict
        /\ calls[p] = <<"granite", "fallback">>
        /\ items[p] # <<>>

\* extract as one function of its arguments, the collaborator's result and
\* the database
ExtractResult(d, text, explicit, g) ==
    IF UseExplicit(explicit) THEN Cleaned(d, Val(explicit))
    ELSE IF HasText(text)
         THEN IF IsStructuredList(g) THEN g.entries
              ELSE parse_prescription(Val(text), d)
    ELSE <<>>

ResultsAsAlone ==
    \A p \in Procs :
        /\ pc[p] = "done" => result[p] = CheckResult(db, items[p], req[p].age)
        /\ pc[p] = "extracted" =>
              items[p] = ExtractResult(db, req[p].text, req[p].explicit,
                                       granite_result[p])
        /\ pc[p] \in {"normalized", "renormalized"} =>
              norm[p].once = normalize(db, norm[p].raw)
        /\ pc[p] = "renormalized" =>
              norm[p].twice = normalize(db, Val(norm[p].once))
        /\ pc[p] = "idle" =>
              /\ items[p] = <<>> /\ recs[p] = <<>> /\ warnings[p] = <<>>
              /\ interactions[p] = <<>> /\ calls[p] = <<>>

\* C10: no operation changes the loaded reference data (nor the collaborator
\* handle), and under every interleaving of two callers each call returns
\* what it returns when run alone on the loaded data; nothing is left over
\* between calls.
C10_ReadOnlyAndIsolated ==
    /\ []ResultsAsAlone
    /\ [][db' = db /\ pipe' = pipe]_vars

C10_Witness ==
    /\ pc[1] = "loop"
    /\ idx[1] = 1
    /\ Len(items[1]) = 2
    /\ pc[2] = "done"
    /\ result[2].alternatives # <<>>

====
